---- MODULE Spec2Model ----
(***************************************************************************)
(* Model of wmjtyd/libstock's feature-matrix scripts:                      *)
(*   scripts/get_available_features.py  (feature discovery)                *)
(*   scripts/list_all_possible_features.py (grouper + the enumeration      *)
(*   pipeline that prints the batches).                                    *)
(*                                                                         *)
(* A Python str is a sequence of one-character strings, so that join and   *)
(* split act on characters.  None is a value outside every str.            *)
(***************************************************************************)
EXTENDS Integers, Sequences, FiniteSets

VARIABLES
    pc,                          \* position of the script (module top level)
    subcmd,                      \* CompletedProcess of subprocess.run
    current_available_features,  \* list_all_possible_features.py:21
    flat,                        \* chain.from_iterable(map(combinations ...))
    combos,                      \* map(','.join, flat): the pre-batch list
    batches,                     \* grouper(combos, 15) consumed
    features_chunks,             \* list(features_chunks)
    stdout,                      \* what the process wrote to standard output
    gpc,                         \* position of a caller of grouper()
    iterable, n, incomplete, fillvalue,   \* arguments of the grouper() call
    it,                          \* items the shared iterator has handed out
    out                          \* tuples the returned zip object has yielded

vars == <<pc, subcmd, current_available_features, flat, combos, batches,
          features_chunks, stdout, gpc, iterable, n, incomplete, fillvalue,
          it, out>>

scriptVars == <<pc, subcmd, current_available_features, flat, combos, batches,
                features_chunks, stdout>>

grouperVars == <<gpc, iterable, n, incomplete, fillvalue, it, out>>

-----------------------------------------------------------------------------
(* Bounds of the model *)

MaxFeatures == 5     \* longest feature list the external tools report
MaxLen == 4          \* longest iterable handed to grouper() directly
MaxN == 3            \* largest chunk length handed to grouper() directly

-----------------------------------------------------------------------------
(* Values *)

\* Python's None: a one-element tuple whose element is no character, hence
\* different from every str.
None == <<"None">>

Min(a, b) == IF a <= b THEN a ELSE b

\* Feature names the manifest may declare, in the order jq's `keys` sorts
\* them (by code point: "" < "a" < "a b" < "a,b" < "b" < ...).  The script
\* validates nothing, so the empty name and names holding the two
\* separators are among them.
FeatureNames ==
    << <<>>, <<"a">>, <<"a", " ", "b">>, <<"a", ",", "b">>,
       <<"b">>, <<"c">>, <<"d">>, <<"e">> >>

\* The sorted, duplicate-free arrays jq's `keys` can print.
RECURSIVE SelectIdx(_, _)
SelectIdx(s, S) ==
    IF s = <<>> THEN <<>>
    ELSE (IF Len(s) \in S THEN SelectIdx(SubSeq(s, 1, Len(s) - 1), S) \o <<s[Len(s)]>>
          ELSE SelectIdx(SubSeq(s, 1, Len(s) - 1), S))

FeatureLists ==
    { SelectIdx(FeatureNames, S) :
        S \in { T \in SUBSET (1..Len(FeatureNames)) : Cardinality(T) <= MaxFeatures } }

-----------------------------------------------------------------------------
(* str.join, str.split, json.dumps *)

\* sep.join(strs)
RECURSIVE join(_, _)
join(sep, strs) ==
    IF strs = <<>> THEN <<>>
    ELSE IF Len(strs) = 1 THEN strs[1]
    ELSE join(sep, SubSeq(strs, 1, Len(strs) - 1)) \o sep \o strs[Len(strs)]

\* s.split(c) for a one-character separator c: never the empty list,
\* one more piece than there are separators.
RECURSIVE split(_, _)
split(s, c) ==
    IF \A i \in 1..Len(s) : s[i] # c THEN <<s>>
    ELSE LET i == CHOOSE k \in 1..Len(s) :
                      s[k] = c /\ \A j \in (k + 1)..Len(s) : s[j] # c
         IN  split(SubSeq(s, 1, i - 1), c) \o <<SubSeq(s, i + 1, Len(s))>>

\* json.dumps of one str: quoted, with '"' and '\' escaped (character by
\* character; the str is halved to keep the evaluation shallow).
RECURSIVE json_escape(_)
json_escape(s) ==
    IF s = <<>> THEN <<>>
    ELSE IF Len(s) = 1
         THEN (IF s[1] \in {"\"", "\\"} THEN <<"\\", s[1]>> ELSE s)
    ELSE LET h == Len(s) \div 2
         IN  json_escape(SubSeq(s, 1, h)) \o json_escape(SubSeq(s, h + 1, Len(s)))

json_string(s) == <<"\"">> \o json_escape(s) \o <<"\"">>

\* Faulty variant: the members are joined and dumped as one str.
json_dumps_joined(strs) == json_string(join(<<",", " ">>, strs))

\* json.dumps of a list of str: '[' + ', '.join(items) + ']'
json_dumps(strs) ==
    <<"[">> \o join(<<",", " ">>, [i \in 1..Len(strs) |-> json_string(strs[i])])
            \o <<"]">>

-----------------------------------------------------------------------------
(* itertools.combinations, itertools.chain.from_iterable *)

\* One pass of combinations()'s loop: the rightmost index that is not at its
\* final value is advanced and the ones after it are reset behind it.
\* <<tuple of the pool at indices>> followed by the remaining tuples.
RECURSIVE combinations_from(_, _, _)
combinations_from(pool, r, indices) ==
    LET len == Len(pool)
        movable == { i \in 1..r : indices[i] # i + len - r }
        i == CHOOSE k \in movable : \A j \in movable : j <= k
        advanced == [j \in 1..r |-> IF j < i THEN indices[j]
                                    ELSE indices[i] + 1 + (j - i)]
    IN  << [j \in 1..r |-> pool[indices[j]]] >>
        \o (IF movable = {} THEN <<>> ELSE combinations_from(pool, r, advanced))

\* Faulty variant: the pool is walked from its end.
combinations_reversed(pool, r) ==
    IF r > Len(pool) THEN <<>>
    ELSE combinations_from([k \in 1..Len(pool) |-> pool[Len(pool) + 1 - k]],
                           r, [j \in 1..r |-> j])

\* combinations(pool, r): the r-length tuples of pool, positions increasing.
combinations(pool, r) ==
    IF r > Len(pool) THEN <<>> ELSE combinations_from(pool, r, [j \in 1..r |-> j])

\* chain.from_iterable(iterables)
RECURSIVE chain_from_iterable(_)
chain_from_iterable(iterables) ==
    IF iterables = <<>> THEN <<>>
    ELSE iterables[1] \o chain_from_iterable(Tail(iterables))

\* Faulty variants: range(1, len(features)) and range(0, len(features) + 1)
sizes_short(features) == [k \in 1..(Len(features) - 1) |-> k]
sizes_from0(features) == [k \in 1..(Len(features) + 1) |-> k - 1]

\* range(1, len(features) + 1)
sizes(features) == [k \in 1..Len(features) |-> k]

-----------------------------------------------------------------------------
(* grouper: args = [iter(iterable)] * n, then zip_longest / zip(strict) / zip.
   The n arguments are ONE iterator, so a round of the zip object calls
   next() on it up to n times.  pos is the number of items the iterator has
   handed out.  The result of one next() on the zip object is
   [tag: "yield" | "StopIteration" | "ValueError", value, pos]. *)

Step(tag, value, pos) == [tag |-> tag, value |-> value, pos |-> pos]

\* Faulty variant: the last tuple is left short instead of padded.
zip_longest_next_short(items, pos, len, fill) ==
    LET avail == Len(items) - pos
    IN  IF avail = 0 THEN Step("StopIteration", <<>>, pos)
        ELSE Step("yield", [j \in 1..Min(len, avail) |-> items[pos + j]],
                  pos + Min(len, avail))

\* zip_longest(*args, fillvalue): an exhausted argument yields fillvalue; the
\* object stops when every argument is exhausted within one round.
zip_longest_next(items, pos, len, fill) ==
    LET avail == Len(items) - pos
    IN  IF avail = 0 THEN Step("StopIteration", <<>>, pos)
        ELSE Step("yield",
                  [j \in 1..len |-> IF j <= avail THEN items[pos + j] ELSE fill],
                  pos + Min(len, avail))

\* Faulty variant: strict=True forgotten, a short rest ends the iteration.
zip_strict_next_lenient(items, pos, len) ==
    LET avail == Len(items) - pos
    IN  IF avail < len THEN Step("StopIteration", <<>>, Len(items))
        ELSE Step("yield", [j \in 1..len |-> items[pos + j]], pos + len)

\* zip(*args, strict=True): stops when the first argument is exhausted and
\* the others are too; raises when a later argument is exhausted first.
zip_strict_next(items, pos, len) ==
    LET avail == Len(items) - pos
    IN  IF avail = 0 THEN Step("StopIteration", <<>>, pos)
        ELSE IF avail < len THEN Step("ValueError", <<>>, Len(items))
        ELSE Step("yield", [j \in 1..len |-> items[pos + j]], pos + len)

\* Faulty variant: the unfinished tuple is yielded instead of dropped.
zip_next_short(items, pos, len) ==
    LET avail == Len(items) - pos
    IN  IF avail = 0 THEN Step("StopIteration", <<>>, pos)
        ELSE Step("yield", [j \in 1..Min(len, avail) |-> items[pos + j]],
                  pos + Min(len, avail))

\* zip(*args): stops at the first exhausted argument; the items it took for
\* the unfinished tuple are gone.
zip_next(items, pos, len) ==
    LET avail == Len(items) - pos
    IN  IF avail < len THEN Step("StopIteration", <<>>, Len(items))
        ELSE Step("yield", [j \in 1..len |-> items[pos + j]], pos + len)

\* Faulty variant of the default policy.
default_incomplete_ignore == "ignore"

\* The keyword defaults of grouper (line 6).
default_incomplete == "fill"
default_fillvalue == None

\* grouper(iterable, n, incomplete=, fillvalue=): the zip object it returns,
\* or the ValueError it raises for an unknown policy.
grouper(items, len, policy, fill) ==
    IF policy = "fill" THEN
        [kind |-> "zip_longest", items |-> items, n |-> len, fillvalue |-> fill]
    ELSE IF policy = "strict" THEN
        [kind |-> "zip_strict", items |-> items, n |-> len, fillvalue |-> fill]
    ELSE IF policy = "ignore" THEN
        [kind |-> "zip", items |-> items, n |-> len, fillvalue |-> fill]
    ELSE
        [kind |-> "ValueError", items |-> items, n |-> len, fillvalue |-> fill]

\* next(obj) with the shared iterator at pos.
next(obj, pos) ==
    IF obj.kind = "zip_longest" THEN
        zip_longest_next(obj.items, pos, obj.n, obj.fillvalue)
    ELSE IF obj.kind = "zip_strict" THEN zip_strict_next(obj.items, pos, obj.n)
    ELSE zip_next(obj.items, pos, obj.n)

\* Consuming obj to its end (map(...) and list(...) over it):
\* [raised, out] with the tuples yielded before the end or the error.
RECURSIVE consume(_, _, _)
consume(obj, pos, acc) ==
    IF obj.kind = "ValueError" THEN [raised |-> TRUE, out |-> acc]
    ELSE LET step == next(obj, pos)
         IN  IF step.tag = "yield"
             THEN consume(obj, step.pos, Append(acc, step.value))
             ELSE [raised |-> step.tag = "ValueError", out |-> acc]

-----------------------------------------------------------------------------
(* get_available_features.py *)

\* What jq prints for the array `keys` returns: one member per line,
\* indented by two spaces; [] for the empty array.
jq_keys(list) ==
    <<"[">>
    \o (IF list = <<>> THEN <<>>
        ELSE <<"\n", " ", " ">>
             \o join(<<",", "\n", " ", " ">>,
                     [i \in 1..Len(list) |-> json_string(list[i])])
             \o <<"\n">>)
    \o <<"]", "\n">>

\* Captured bytes that are no JSON document: nothing at all, an array cut
\* short, a trailing comma, a second document, plain words; and bytes that
\* are no UTF-8 ("0xFF" stands for such a byte).
MalformedOutputs ==
    { <<>>,
      <<"[", "\n">>,
      <<"[", "\"", "a", "\"", ",", "]">>,
      <<"[", "]", "\n", "[", "]", "\n">>,
      <<"e", "r", "r", "o", "r">>,
      <<"[", "\"", "a", "\"">>,
      <<"[", "\"", "0xFF", "\"", "]">> }

\* What `cargo read-manifest | jq ".features | keys"` can leave behind under
\* sh: the exit status is that of jq, the last command of the pipeline (127
\* when sh finds no jq, and then nothing was written).  With cargo missing or
\* failing, jq reads an empty input, prints nothing and exits 0.  jq prints
\* the result of each document it has read before it fails on a later one.
CompletedProcesses ==
    { [returncode |-> rc, stdout |-> text] :
        rc \in {0, 2, 5},
        text \in { jq_keys(list) : list \in FeatureLists } \cup MalformedOutputs }
    \cup { [returncode |-> 127, stdout |-> <<>>] }

NoProcess == [returncode |-> 0, stdout |-> <<>>]

\* bytes.decode('utf-8'): raises on a byte that is no UTF-8
decode(bytes) ==
    IF \E k \in 1..Len(bytes) : bytes[k] = "0xFF"
    THEN [raised |-> TRUE, value |-> <<>>]
    ELSE [raised |-> FALSE, value |-> bytes]

\* json.loads, for documents that are arrays of strings.  Whitespace is
\* skipped around the brackets, the members and the commas; of the escapes
\* in a string only \" and \\ occur.  Anything else raises JSONDecodeError.
Whitespace == {" ", "\n", "\t", "\r"}

\* first index from i on that holds no whitespace (Len(text) + 1 if none)
skip_whitespace(text, i) ==
    CHOOSE k \in i..(Len(text) + 1) :
        /\ k = Len(text) + 1 \/ text[k] \notin Whitespace
        /\ \A m \in i..(k - 1) : text[m] \in Whitespace

\* number of backslashes right before index k, not reaching below lo
backslashes_before(text, lo, k) ==
    k - (CHOOSE j \in lo..k :
            /\ \A m \in j..(k - 1) : text[m] = "\\"
            /\ j = lo \/ text[j - 1] # "\\")

\* the str written between the quotes: every escaping backslash dropped
unescape(s) ==
    SelectIdx(s, { k \in 1..Len(s) :
                     ~(s[k] = "\\" /\ backslashes_before(s, 1, k) % 2 = 0) })

\* a string starting at text[i]: [ok, value, next]
scan_string(text, i) ==
    LET closing == { k \in (i + 1)..Len(text) :
                       /\ text[k] = "\""
                       /\ backslashes_before(text, i + 1, k) % 2 = 0 }
        k == CHOOSE c \in closing : \A d \in closing : c <= d
    IN  IF i > Len(text) \/ text[i] # "\"" \/ closing = {}
        THEN [ok |-> FALSE, value |-> <<>>, next |-> i]
        ELSE [ok |-> TRUE, value |-> unescape(SubSeq(text, i + 1, k - 1)),
              next |-> k + 1]

\* the members from text[i] on, after acc: [ok, value, next]
RECURSIVE scan_members(_, _, _)
scan_members(text, i, acc) ==
    LET str == scan_string(text, skip_whitespace(text, i))
        j == skip_whitespace(text, str.next)
    IN  IF ~str.ok \/ j > Len(text) THEN [ok |-> FALSE, value |-> <<>>, next |-> j]
        ELSE IF text[j] = "," THEN scan_members(text, j + 1, Append(acc, str.value))
        ELSE IF text[j] = "]"
             THEN [ok |-> TRUE, value |-> Append(acc, str.value), next |-> j + 1]
        ELSE [ok |-> FALSE, value |-> <<>>, next |-> j]

json_loads(text) ==
    LET i == skip_whitespace(text, 1)
        j == skip_whitespace(text, i + 1)
        arr == IF i > Len(text) \/ text[i] # "[" \/ j > Len(text)
               THEN [ok |-> FALSE, value |-> <<>>, next |-> i]
               ELSE IF text[j] = "]" THEN [ok |-> TRUE, value |-> <<>>, next |-> j + 1]
               ELSE scan_members(text, j, <<>>)
    IN  IF arr.ok /\ skip_whitespace(text, arr.next) > Len(text)
        THEN [raised |-> FALSE, value |-> arr.value]
        ELSE [raised |-> TRUE, value |-> <<>>]

\* subcmd.stdout.decode('utf-8') followed by json.loads(outputs):
\* [raised, value].
decode_and_loads(bytes) ==
    LET outputs == decode(bytes)
    IN  IF outputs.raised THEN outputs ELSE json_loads(outputs.value)

\* get_available_features(), called at line 21 of the script.  The return
\* code is never looked at; an exception ends the process.
GetAvailableFeatures ==
    /\ pc = "start"
    /\ \E result \in CompletedProcesses :
         LET loaded == decode_and_loads(result.stdout)
         IN  /\ subcmd' = result
             /\ current_available_features' = loaded.value
             /\ pc' = IF loaded.raised THEN "crashed" ELSE "combinations"
    /\ UNCHANGED <<flat, combos, batches, features_chunks, stdout, grouperVars>>

-----------------------------------------------------------------------------
(* list_all_possible_features.py, lines 23-39, innermost expression first *)

chunk_size == 15

\* Faulty variant: nothing is filtered out.
filter_keep_all(chunks) == chunks

\* filter(lambda v: v is not None, chunks)
filter_not_none(chunks) == SelectSeq(chunks, LAMBDA v : v # None)

\* lines 28-33: every combination of every size, flattened
Combinations ==
    /\ pc = "combinations"
    /\ LET F == current_available_features
           r == sizes(F)
       IN  flat' = chain_from_iterable([k \in 1..Len(r) |-> combinations(F, r[k])])
    /\ pc' = "serialize"
    /\ UNCHANGED <<subcmd, current_available_features, combos, batches,
                   features_chunks, stdout, grouperVars>>

\* lines 26-27: ','.join(features) for each combination
Serialize ==
    /\ pc = "serialize"
    /\ combos' = [i \in 1..Len(flat) |-> join(<<",">>, flat[i])]
    /\ pc' = "group"
    /\ UNCHANGED <<subcmd, current_available_features, flat, batches,
                   features_chunks, stdout, grouperVars>>

\* lines 25-36: grouper(..., 15), consumed by the outer map
Group ==
    /\ pc = "group"
    /\ LET r == consume(grouper(combos, chunk_size, default_incomplete,
                                default_fillvalue), 0, <<>>)
       IN  /\ batches' = r.out
           /\ pc' = IF r.raised THEN "crashed" ELSE "join"
    /\ UNCHANGED <<subcmd, current_available_features, flat, combos,
                   features_chunks, stdout, grouperVars>>

\* lines 23-24: ' '.join(filter(...)) for each chunk
JoinChunks ==
    /\ pc = "join"
    /\ features_chunks' =
           [i \in 1..Len(batches) |-> join(<<" ">>, filter_not_none(batches[i]))]
    /\ pc' = "print"
    /\ UNCHANGED <<subcmd, current_available_features, flat, combos, batches,
                   stdout, grouperVars>>

\* line 39: print(json.dumps(list(features_chunks)))
WriteStdout ==
    /\ pc = "print"
    /\ stdout' = json_dumps(features_chunks) \o <<"\n">>
    /\ pc' = "done"
    /\ UNCHANGED <<subcmd, current_available_features, flat, combos, batches,
                   features_chunks, grouperVars>>

-----------------------------------------------------------------------------
(* A caller of grouper() that consumes the returned object with next() *)

Items == { <<"a">>, <<"b">> }
Policies == { "fill", "strict", "ignore", "pad" }
Fillvalues == { None, <<"x">> }

SeqsUpTo(S, k) == UNION { [1..m -> S] : m \in 0..k }

GrouperCall ==
    /\ gpc = "idle"
    /\ \E items \in SeqsUpTo(Items, MaxLen), len \in 1..MaxN,
          policy \in Policies, fill \in Fillvalues :
         /\ iterable' = items
         /\ n' = len
         /\ incomplete' = policy
         /\ fillvalue' = fill
         /\ gpc' = IF grouper(items, len, policy, fill).kind = "ValueError"
                   THEN "ValueError" ELSE "iterating"
    /\ it' = 0
    /\ out' = <<>>
    /\ UNCHANGED scriptVars

ZipNext ==
    /\ gpc = "iterating"
    /\ LET step == next(grouper(iterable, n, incomplete, fillvalue), it)
       IN  /\ it' = step.pos
           /\ out' = IF step.tag = "yield" THEN Append(out, step.value) ELSE out
           /\ gpc' = IF step.tag = "yield" THEN "iterating"
                     ELSE IF step.tag = "ValueError" THEN "ValueError"
                     ELSE "exhausted"
    /\ UNCHANGED <<iterable, n, incomplete, fillvalue, scriptVars>>

-----------------------------------------------------------------------------
(* Specifications *)

Init ==
    /\ pc = "start"
    /\ subcmd = NoProcess
    /\ current_available_features = <<>>
    /\ flat = <<>>
    /\ combos = <<>>
    /\ batches = <<>>
    /\ features_chunks = <<>>
    /\ stdout = <<>>
    /\ gpc = "idle"
    /\ iterable = <<>>
    /\ n = 1
    /\ incomplete = default_incomplete
    /\ fillvalue = default_fillvalue
    /\ it = 0
    /\ out = <<>>

\* One run of list_all_possible_features.py
Next ==
    \/ GetAvailableFeatures
    \/ Combinations
    \/ Serialize
    \/ Group
    \/ JoinChunks
    \/ WriteStdout

Spec == Init /\ [][Next]_vars

\* One call of grouper() and the consumption of its result
GrouperNext ==
    \/ GrouperCall
    \/ ZipNext

GrouperSpec == Init /\ [][GrouperNext]_vars

-----------------------------------------------------------------------------
(* Vocabulary of the properties *)

Chars(s) == { s[k] : k \in 1..Len(s) }
Features == { current_available_features[k] :
                k \in 1..Len(current_available_features) }
Serialized == pc \in {"group", "join", "print", "done"}
Joined == pc \in {"print", "done"}

RECURSIVE Pow2(_)
Pow2(k) == IF k = 0 THEN 1 ELSE 2 * Pow2(k - 1)

Ceil(a, b) == (a + b - 1) \div b

\* Position of a feature in the discovered list (the names are distinct)
Pos(f) == CHOOSE k \in 1..Len(current_available_features) :
              current_available_features[k] = f
PosTuple(t) == [j \in 1..Len(t) |-> Pos(t[j])]
Increasing(p) == \A j \in 1..(Len(p) - 1) : p[j] < p[j + 1]
LexLess(p, q) ==
    \E k \in 1..Len(p) : p[k] < q[k] /\ \A j \in 1..(k - 1) : p[j] = q[j]

A == <<"a">>
B == <<"b">>
C == <<"c">>

-----------------------------------------------------------------------------
(* Properties of the script, checked under Spec *)

\* C1: for a discovered feature list of size N, the pre-batch list of
\* serialized combinations has exactly 2^N - 1 entries.
C1_Count ==
    Serialized => Len(combos) = Pow2(Len(current_available_features)) - 1

C1_Witness ==
    /\ Serialized
    /\ Len(current_available_features) = 5
    /\ Len(combos) = 31

\* C2 as stated: for every feature list, no entry of the pre-batch list is
\* the empty string and no two entries are the same text.
C2_Original ==
    Serialized =>
        /\ \A i \in 1..Len(combos) : combos[i] # <<>>
        /\ \A i, j \in 1..Len(combos) : i # j => combos[i] # combos[j]

\* C2 amended: the same, for feature lists whose names are pairwise
\* distinct, non-empty and hold no comma.
CommaFreeNames ==
    /\ \A f \in Features : f # <<>> /\ "," \notin Chars(f)
    /\ Cardinality(Features) = Len(current_available_features)

C2_Amended ==
    (Serialized /\ CommaFreeNames) =>
        /\ \A i \in 1..Len(combos) : combos[i] # <<>>
        /\ \A i, j \in 1..Len(combos) : i # j => combos[i] # combos[j]

C2_Witness ==
    /\ Serialized
    /\ CommaFreeNames
    /\ Len(current_available_features) = 5
    /\ <<"a", " ", "b">> \in Features
    /\ Len(combos) = 31

\* C3: combinations come in increasing size, every size from 1 to N is
\* there, within a size they are in lexicographic order of input positions,
\* and each lists its members in input order; features a, b, c give the
\* pre-batch list a, b, c, "a,b", "a,c", "b,c", "a,b,c" and the printed line
\* ["a b c a,b a,c b,c a,b,c"].
C3_Order ==
    /\ Serialized =>
         /\ Len(combos) = Len(flat)
         /\ \A i \in 1..Len(flat) : Increasing(PosTuple(flat[i]))
         /\ \A i \in 1..(Len(flat) - 1) :
              \/ Len(flat[i]) < Len(flat[i + 1])
              \/ /\ Len(flat[i]) = Len(flat[i + 1])
                 /\ LexLess(PosTuple(flat[i]), PosTuple(flat[i + 1]))
         /\ { Len(flat[i]) : i \in 1..Len(flat) }
              = 1..Len(current_available_features)
         /\ CommaFreeNames =>
              \A i \in 1..Len(combos) : split(combos[i], ",") = flat[i]
    /\ (Serialized /\ current_available_features = <<A, B, C>>) =>
         combos = << <<"a">>, <<"b">>, <<"c">>, <<"a", ",", "b">>,
                     <<"a", ",", "c">>, <<"b", ",", "c">>,
                     <<"a", ",", "b", ",", "c">> >>
    /\ (pc = "done" /\ current_available_features = <<A, B, C>>) =>
         stdout = <<"[", "\"", "a", " ", "b", " ", "c", " ", "a", ",", "b",
                    " ", "a", ",", "c", " ", "b", ",", "c", " ",
                    "a", ",", "b", ",", "c", "\"", "]", "\n">>

C3_Witness ==
    /\ pc = "done"
    /\ current_available_features = <<A, B, C>>
    /\ Len(combos) = 7

C8_Empty ==
    (pc # "start" /\ subcmd.stdout = <<"[", "]", "\n">>) =>
        /\ pc # "crashed"
        /\ flat = <<>> /\ combos = <<>> /\ batches = <<>>
        /\ features_chunks = <<>>
        /\ pc = "done" => stdout = <<"[", "]", "\n">>

C8_Witness ==
    /\ pc = "done"
    /\ subcmd.stdout = <<"[", "]", "\n">>
    /\ current_available_features = <<>>
    /\ stdout = <<"[", "]", "\n">>

\* C9 as stated: whenever discovery meets a failure condition (a tool is
\* absent, the pipeline exits non-zero, or the captured output is no valid
\* JSON) the process aborts before the enumeration and prints nothing.
DiscoveryFailed ==
    \/ subcmd.returncode # 0
    \/ subcmd.stdout \notin { jq_keys(list) : list \in FeatureLists }

C9_FailFast ==
    (pc # "start" /\ DiscoveryFailed) => (pc = "crashed" /\ stdout = <<>>)

\* C10: for names without a space, every printed batch string holds between
\* 1 and 15 combinations, all but the last exactly 15, and the pieces of the
\* strings split on single spaces, in order, are the pre-batch list.
SpaceFreeNames == \A f \in Features : " " \notin Chars(f)

C10_Lossless ==
    (Joined /\ SpaceFreeNames) =>
        LET pieces == [i \in 1..Len(features_chunks) |->
                           split(features_chunks[i], " ")]
        IN  /\ \A i \in 1..Len(pieces) :
                 /\ Len(pieces[i]) \in 1..15
                 /\ i < Len(pieces) => Len(pieces[i]) = 15
            /\ chain_from_iterable(pieces) = combos

C10_Witness ==
    /\ pc = "done"
    /\ SpaceFreeNames
    /\ Len(features_chunks) = 3
    /\ Len(combos) = 31

-----------------------------------------------------------------------------
(* Properties of grouper, checked under GrouperSpec *)

\* The item the k-th tuple holds at position j when nothing is lost
ItemAt(k, j) == iterable[(k - 1) * n + j]

\* C4: fill policy: ceil(L/B) batches, each of length B; the last is padded
\* with the filler in its trailing positions only.
C4_Fill ==
    (gpc # "idle" /\ incomplete = "fill") =>
        /\ gpc # "ValueError"
        /\ \A k \in 1..Len(out) :
             /\ Len(out[k]) = n
             /\ \A j \in 1..n :
                  out[k][j] = IF (k - 1) * n + j <= Len(iterable)
                              THEN ItemAt(k, j) ELSE fillvalue
        /\ Len(out) <= Ceil(Len(iterable), n)
        /\ gpc = "exhausted" => Len(out) = Ceil(Len(iterable), n)

C4_Witness ==
    /\ gpc = "exhausted"
    /\ incomplete = "fill"
    /\ Len(iterable) = 4 /\ n = 3
    /\ Len(out) = 2
    /\ out[2][2] = fillvalue /\ out[2][3] = fillvalue

\* C5: strict policy: consumed to the end, grouping succeeds iff
\* L mod B = 0; otherwise it raises, and no short or padded batch is ever
\* yielded.
C5_Strict ==
    (gpc # "idle" /\ incomplete = "strict") =>
        /\ \A k \in 1..Len(out) :
             /\ Len(out[k]) = n
             /\ \A j \in 1..n : (k - 1) * n + j <= Len(iterable)
                                /\ out[k][j] = ItemAt(k, j)
        /\ gpc = "exhausted" =>
             (Len(iterable) % n = 0 /\ Len(out) = Len(iterable) \div n)
        /\ gpc = "ValueError" =>
             (Len(iterable) % n # 0 /\ Len(out) = Len(iterable) \div n)

C5_Witness ==
    /\ gpc = "ValueError"
    /\ incomplete = "strict"
    /\ Len(iterable) = 4 /\ n = 3
    /\ Len(out) = 1

\* C6: ignore policy: floor(L/B) batches of length B whose concatenation is
\* the first B * floor(L/B) items; the rest is dropped and nothing is raised.
C6_Ignore ==
    (gpc # "idle" /\ incomplete = "ignore") =>
        /\ gpc # "ValueError"
        /\ \A k \in 1..Len(out) : Len(out[k]) = n
        /\ gpc = "exhausted" =>
             /\ Len(out) = Len(iterable) \div n
             /\ chain_from_iterable(out)
                  = SubSeq(iterable, 1, n * (Len(iterable) \div n))

C6_Witness ==
    /\ gpc = "exhausted"
    /\ incomplete = "ignore"
    /\ Len(iterable) = 4 /\ n = 3
    /\ Len(out) = 1

====
